---- MODULE Spec2Model ----
(***************************************************************************)
(* Smart-Attendance-and-Tracking: the geometric attendance-decision        *)
(* engine (src/utils/CircleUtils.ts), the distance-based status policy     *)
(* (GeoUtils.determineStatus), the GPS reading loop of LocationService and *)
(* the attendance handlers of the faculty and student screens.             *)
(*                                                                         *)
(* The specifications share the variables:                                 *)
(*   Spec     one call of a pure static function: the function called (fn),*)
(*            its arguments (args), whether it has run (pc), what it       *)
(*            returned (ret), the exception it threw, if any (thrown), and *)
(*            the rounding error of its double arithmetic (rounding).  The *)
(*            arguments are drawn from bounded sets.                       *)
(*   SpecGps  the loop of getHighAccuracyGPSLocation that collects up to   *)
(*            maxReadings readings and selects one.                        *)
(*   SpecApp  startSession on the faculty screen, submitAttendance and     *)
(*            markAttendance on two student devices, and the tables        *)
(*            sessions and attendance.                                     *)
(*   SpecAtt  the retry loop of getLocationForAttendance; SpecAttFair adds *)
(*            that the function's own steps are taken.                     *)
(*   SpecLoc  the multi-method getHighAccuracyLocation: four location      *)
(*            methods and the timeout promise under Promise.allSettled.    *)
(*   SpecFac  the session of the faculty screen from its creation to its   *)
(*            end: the countdown, the polling of attendance records and    *)
(*            endSession; SpecFacFair adds that a set interval fires and   *)
(*            an awaited update settles.                                   *)
(*                                                                         *)
(* A JavaScript number is a record [k, v]: k = "num" for a finite number   *)
(* with value v, k = "nan" for NaN, k = "inf" for +/-Infinity (v its       *)
(* sign).  Units of v: metres for coordinates, radii and distances (a      *)
(* coordinate is the arc length of its angle on the sphere of radius R, so *)
(* that one unit of latitude is one metre on the ground); thousandths for  *)
(* angles (milliradians), areas (thousandths of a square metre), ratios    *)
(* and coverage (thousandths of a percent).                                *)
(***************************************************************************)
EXTENDS Integers, Sequences, FiniteSets, TLC

VARIABLES fn, args, ret, thrown, pc, rounding

\* The GPS reading loop of LocationService: the loop counter i (loopI), the
\* readings collected, where the loop stands (gpsPc), the position in
\* readings of the reading selected (bestReading) and the location returned
\* (locationData).
VARIABLES loopI, readings, gpsPc, bestReading, locationData

\* The attendance application: the tables sessions and attendance of the
\* database, the faculty screen (faculty), the attendance screen of each
\* student device (student), the network each student device is on (ssid),
\* the screen it runs (tab: StudentTab or MarkAttendanceTab) and the
\* version of LocationService the build carries (service).
VARIABLES sessions, attendance, faculty, student, ssid, tab, service

\* One call of LocationService.getLocationForAttendance: its parameters
\* (requiredAccuracy, maxAttempts, each given or left to its default), the
\* loop counter (attempt), how each call of getHighAccuracyLocation made so
\* far ended (acquired), where the function stands (attPc) and the location
\* it returned or the error it threw (attResult).
VARIABLES requiredAccuracy, maxAttempts, attempt, acquired, attPc, attResult

\* One call of the multi-method LocationService.getHighAccuracyLocation
\* from its step 5 on: the promises of the four location methods
\* (locationMethods) and of the 20 s timeout (timeoutPromise), where the
\* call stands (locPc) and what it settled with (locResult).
VARIABLES locationMethods, timeoutPromise, locPc, locResult

\* The session of the faculty screen (FacultyTab): the state of the
\* component (facultyTab: students, timeRemaining, sessionActive,
\* currentSession), the interval of its countdown effect (countdown) and of
\* its polling effect (polling), each with the values its callback closes
\* over, the calls of endSession and fetchAttendanceRecords that stand at
\* their await (running), and the tables of the database by session
\* (sessionRows, attendanceRows).
VARIABLES facultyTab, countdown, polling, running, sessionRows, attendanceRows

callVars == <<fn, args, ret, thrown, pc, rounding>>
gpsVars == <<loopI, readings, gpsPc, bestReading, locationData>>
appVars == <<sessions, attendance, faculty, student, ssid, tab, service>>
attVars ==
    <<requiredAccuracy, maxAttempts, attempt, acquired, attPc, attResult>>
locVars == <<locationMethods, timeoutPromise, locPc, locResult>>
facVars ==
    <<facultyTab, countdown, polling, running, sessionRows, attendanceRows>>

vars == <<callVars, gpsVars, appVars, attVars, locVars, facVars>>

\* What a step of one part of the program leaves alone: the other parts.
notCallVars == <<gpsVars, appVars, attVars, locVars, facVars>>
notGpsVars == <<callVars, appVars, attVars, locVars, facVars>>
notAppVars == <<callVars, gpsVars, attVars, locVars, facVars>>
notAttVars == <<callVars, gpsVars, appVars, locVars, facVars>>
notLocVars == <<callVars, gpsVars, appVars, attVars, facVars>>
notFacVars == <<callVars, gpsVars, appVars, attVars, locVars>>

(* ------------------------------ bounds -------------------------------- *)

\* Latitudes of the sampled points, in metres of arc: 0..MaxLat.
MaxLat == 12
\* Radii handed to the overlap engine: -1..MaxRadius metres.
MaxRadius == 6
\* Coverage values handed directly to determineAttendanceStatus: whole
\* percents 0..MaxPercent and their neighbours one thousandth away.
MaxPercent == 100
\* Distances and thresholds handed to determineStatus, in metres.
MaxDistance == 60
MaxThreshold == 60
\* The registration number looked up is a string of at most MaxIdLen
\* characters, a roster entry's one of at most MaxRegLen characters.
MaxIdLen == 2
MaxRegLen == 1
\* A roster (student_list) has at most MaxRoster entries.
MaxRoster == 2
\* The accuracy of a GPS reading is null or 0..MaxAccuracy metres.
MaxAccuracy == 8
\* The accuracy of a location handed to a screen is 0..MaxFix metres.
MaxFix == 1
\* getLocationForAttendance is asked for an accuracy of 0..MaxRequired
\* metres (or its default) in 0..MaxAttempts attempts (or its default).
MaxRequired == 2
MaxAttempts == 3
\* A location method resolves with an accuracy of 0..MaxMethodAccuracy
\* metres.
MaxMethodAccuracy == 2
\* The faculty screen holds a list of MaxClass students and starts at most
\* MaxSessions sessions.
MaxClass == 2
MaxSessions == 1

(* --------------------------- JS numbers ------------------------------- *)

\* Fixed-point resolution of non-integer quantities: three decimal digits.
Scale == 10 * 100

Num(x) == [k |-> "num", v |-> x]
NaN == [k |-> "nan", v |-> 0]
Infinity == [k |-> "inf", v |-> 1]

IsFinite(x) == x.k = "num"

\* Math.PI, in thousandths.
Pi == 3142

Abs(x) == IF x < 0 THEN -x ELSE x
Min(x, y) == IF x <= y THEN x ELSE y
Max(x, y) == IF x >= y THEN x ELSE y

\* a >= b and a <= b on JS numbers: every comparison with NaN is false.
NumGe(a, b) ==
    /\ a.k # "nan" /\ b.k # "nan"
    /\ \/ a.k = "num" /\ b.k = "num" /\ a.v >= b.v
       \/ a.k = "inf" /\ a.v > 0
       \/ b.k = "inf" /\ b.v < 0

NumLe(a, b) == NumGe(b, a)

NumGt(a, b) == a.k # "nan" /\ b.k # "nan" /\ ~NumLe(a, b)

\* n / d on JS numbers given by their integer values; the quotient in
\* thousandths.  0/0 is NaN, x/0 is an infinity.
Quotient(n, d) ==
    IF d = 0
    THEN IF n = 0 THEN NaN ELSE [k |-> "inf", v |-> IF n > 0 THEN 1 ELSE -1]
    ELSE Num((n * Scale) \div d)

\* Floor of the square root of a natural number (Newton iteration).
RECURSIVE ISqrtIter(_, _)
ISqrtIter(n, x) ==
    LET y == (x + (n \div x)) \div 2
    IN  IF y >= x THEN x ELSE ISqrtIter(n, y)

ISqrt(n) == IF n = 0 THEN 0 ELSE ISqrtIter(n, n)

\* Math.sqrt of an integer, in thousandths (resolution one hundredth);
\* NaN for a negative argument.
Sqrt(n) == IF n < 0 THEN NaN ELSE Num(ISqrt(n * 100 * 100) * 10)

\* arcsin of s thousandths, 0 <= s <= Scale/sqrt(2), in milliradians, by its
\* power series: term_k = term_(k-1) * s^2 * (2k-1)^2 / (2k (2k+1)).
RECURSIVE ASinSum(_, _, _, _)
ASinSum(term, s2, k, acc) ==
    LET t == (term * s2 * (2 * k - 1) * (2 * k - 1))
                 \div (Scale * 2 * k * (2 * k + 1))
    IN  IF t = 0 THEN acc ELSE ASinSum(t, s2, k + 1, acc + t)

ASin(s) == ASinSum(s, (s * s) \div Scale, 1, s)

\* Math.acos(n / d), in milliradians.  NaN when the quotient is NaN, infinite
\* or outside [-1, 1].  Inside, by the half-angle identities
\* sin(t/2) = sqrt((1 - x)/2), cos(t/2) = sqrt((1 + x)/2).
ACos(n, d) ==
    IF d = 0 \/ Abs(n) > Abs(d)
    THEN NaN
    ELSE LET m == IF d < 0 THEN -n ELSE n
             e == Abs(d)
             s == ISqrt(((e - m) * Scale * Scale) \div (2 * e))
             c == ISqrt(((e + m) * Scale * Scale) \div (2 * e))
         IN  IF s <= c
             THEN Num(2 * ASin(s))
             ELSE Num(Pi - 2 * ASin(c))

\* Whether the double the code computes for n / d lies in [-1, 1].  A
\* quotient strictly inside stays inside; one that stands at -1 or 1 (the
\* operands a rounding error away from it) is rounded either onto it or to
\* its neighbour inside (roundingOfQuotient <= 0) or to its neighbour
\* outside, such as 1.0000000000000002 (roundingOfQuotient > 0).
InAcosDomain(n, d, roundingOfQuotient) ==
    /\ d # 0
    /\ Abs(n) <= Abs(d)
    /\ ~(roundingOfQuotient > 0 /\ Abs(n) = Abs(d))

\* Math.acos of the double computed for n / d.
ACosRounded(n, d, roundingOfQuotient) ==
    IF InAcosDomain(n, d, roundingOfQuotient) THEN ACos(n, d) ELSE NaN

\* x * n for a JS number x and an integer n.
Times(x, n) ==
    CASE x.k = "num" -> Num(x.v * n)
      [] x.k = "nan" -> NaN
      [] x.k = "inf" -> IF n = 0 THEN NaN
                        ELSE [k |-> "inf", v |-> IF n > 0 THEN x.v ELSE -x.v]

\* x + y and x - y on JS numbers.
Plus(x, y) ==
    CASE x.k = "nan" \/ y.k = "nan" -> NaN
      [] x.k = "num" /\ y.k = "num" -> Num(x.v + y.v)
      [] x.k = "inf" /\ y.k = "num" -> x
      [] x.k = "num" /\ y.k = "inf" -> y
      [] x.k = "inf" /\ y.k = "inf" -> IF x.v = y.v THEN x ELSE NaN

Minus(x, y) == Plus(x, Times(y, -1))

\* x / d for a JS number x and an integer d.
Over(x, d) ==
    CASE x.k = "nan" -> NaN
      [] x.k = "num" -> Quotient(x.v, d)
      [] x.k = "inf" -> [k |-> "inf", v |-> IF d >= 0 THEN x.v ELSE -x.v]

\* Math.min(x, y) and Math.max(x, y): NaN if either argument is NaN.
MathMin(x, y) ==
    IF x.k = "nan" \/ y.k = "nan" THEN NaN
    ELSE IF NumLe(x, y) THEN x ELSE y

MathMax(x, y) ==
    IF x.k = "nan" \/ y.k = "nan" THEN NaN
    ELSE IF NumGe(x, y) THEN x ELSE y

(* ------------------------- CircleUtils.ts ----------------------------- *)

\* const R = 6371000, in metres.
EarthRadius == 6371000

\* Half of a great circle, R * Math.PI, in metres: the arc length of the
\* longitude 180 degrees, and the distance of two antipodal points.
HalfTurn == Pi * (EarthRadius \div Scale)

\* The haversine distance of getDistanceInMeters.  Any NaN or infinite
\* coordinate makes dLat or dLon NaN or infinite, its sine NaN, and the
\* result NaN.  The sampled points lie on the great circle made of the
\* meridians 0 and 180 degrees.
\*   Same meridian (dLon = 0): a = sin^2(dLat/2),
\*     c = 2 atan2(sqrt(a), sqrt(1 - a)) = |dLat| and R * c = R * |dLat|,
\*     the difference of the two latitudes' arc lengths.
\*   Opposite meridians (|dLon| = 180 degrees): sin^2(dLon/2) = 1 and
\*     a = sin^2(dLat/2) + cos(lat1) cos(lat2) = cos^2((lat1 + lat2)/2),
\*     so R * c = R * (pi - |lat1 + lat2|).  For antipodal points
\*     (lat1 + lat2 = 0) a is 1 in exact arithmetic; the code does not clamp
\*     a, and off the equator the double it computes is 1 or a neighbour of
\*     1, as the rounding of the sines and cosines falls (roundingOfA: the
\*     sign of the error; on the equator cos(0) = 1 and a is 1 without
\*     error).  Above 1, Math.sqrt(1 - a) is NaN and so is the result; at or
\*     below 1 the result is R * pi to the metre.  One metre away from the
\*     antipode 1 - a is over fifty times the spacing of doubles at 1, out
\*     of the reach of the rounding.
haversine(lat1, lon1, lat2, lon2, roundingOfA) ==
    CASE ~(IsFinite(lat1) /\ IsFinite(lon1) /\ IsFinite(lat2) /\ IsFinite(lon2))
             -> NaN
      [] IsFinite(lat1) /\ IsFinite(lon1) /\ IsFinite(lat2) /\ IsFinite(lon2)
            /\ lon2.v - lon1.v = 0
             -> Num(Abs(lat2.v - lat1.v))
      [] IsFinite(lat1) /\ IsFinite(lon1) /\ IsFinite(lat2) /\ IsFinite(lon2)
            /\ Abs(lon2.v - lon1.v) = HalfTurn
             -> IF lat1.v + lat2.v = 0 /\ lat1.v # 0 /\ roundingOfA > 0
                THEN NaN
                ELSE Num(HalfTurn - Abs(lat1.v + lat2.v))

\* getDistanceInMeters as the overlap engine calls it, with both centres on
\* one meridian or a coordinate not finite: a is far below 1 or NaN, and its
\* rounding does not show in the result.
getDistanceInMeters(lat1, lon1, lat2, lon2) ==
    haversine(lat1, lon1, lat2, lon2, 0)

\* The no-overlap test with > in place of >=.
NoOverlapStrict(distance, radius1, radius2) ==
    NumGt(distance, Num(radius1 + radius2))

\* distance >= radius1 + radius2
NoOverlap(distance, radius1, radius2) ==
    NumGe(distance, Num(radius1 + radius2))

\* distance <= Math.abs(radius1 - radius2)
Contained(distance, radius1, radius2) ==
    NumLe(distance, Num(Abs(radius1 - radius2)))

\* (smallerArea / circle2Area) * 100
ContainedCoverage(radius1, radius2) ==
    LET smallerRadius == Min(radius1, radius2)
        smallerArea == Pi * smallerRadius * smallerRadius
        circle2Area == Pi * radius2 * radius2
    IN  Times(Quotient(smallerArea, circle2Area), 100)

\* The expression under the square root of area3.
UnderRoot(d, radius1, radius2) ==
    (-d + radius1 + radius2) * (d + radius1 - radius2)
        * (d - radius1 + radius2) * (d + radius1 + radius2)

\* The lens formula and its clamp to [0, 100].  A NaN distance makes every
\* term NaN, and Math.min and Math.max hand NaN on.
PartialRounded(distance, radius1, radius2, roundingOfQuotient) ==
    IF ~IsFinite(distance) THEN NaN
    ELSE
    LET d == distance.v
        r1Sq == radius1 * radius1
        r2Sq == radius2 * radius2
        dSq == d * d
        area1 == Times(ACosRounded(dSq + r1Sq - r2Sq, 2 * d * radius1,
                                   roundingOfQuotient),
                       r1Sq)
        area2 == Times(ACosRounded(dSq + r2Sq - r1Sq, 2 * d * radius2,
                                   roundingOfQuotient),
                       r2Sq)
        root == Sqrt(UnderRoot(d, radius1, radius2))
        area3 == IF IsFinite(root) THEN Num(root.v \div 2) ELSE root
        overlapArea == Minus(Plus(area1, area2), area3)
        circle2Area == Pi * r2Sq
    IN  MathMax(Num(0),
                MathMin(Num(100 * Scale),
                        Times(Over(overlapArea, circle2Area), 100)))

\* The lens formula in exact arithmetic.
PartialCoverage(distance, radius1, radius2) ==
    PartialRounded(distance, radius1, radius2, 0)

\* The doubles distance, radius1 + radius2 and Math.abs(radius1 - radius2)
\* carry rounding errors.  Sampled values that are exactly tangent (distance
\* = radius1 + radius2 or distance = |radius1 - radius2|) stand for doubles
\* that are tangent (roundingOfDistance = 0) and for doubles a rounding
\* error inside the partial range (roundingOfDistance # 0), for which both
\* tests of the function are false.  Not so at distance 0 or with a radius
\* 0: a zero radius makes the two bounds the same double, and at distance
\* 0 tangent circles are equal circles, whose quotients stand at 0.
JustInside(distance, radius1, radius2, roundingOfDistance) ==
    /\ roundingOfDistance # 0
    /\ IsFinite(distance) /\ distance.v > 0
    /\ radius1 > 0 /\ radius2 > 0
    /\ distance.v \in {radius1 + radius2, Abs(radius1 - radius2)}

\* The function reaches its partial overlap calculation.
PartialBranch(distance, radius1, radius2, roundingOfDistance) ==
    \/ JustInside(distance, radius1, radius2, roundingOfDistance)
    \/ /\ ~NoOverlap(distance, radius1, radius2)
       /\ ~Contained(distance, radius1, radius2)

\* calculateCircleOverlap in double arithmetic: rounding is the error of the
\* doubles of this call, by its sign.
circleOverlap(center1Lat, center1Lon, radius1, center2Lat, center2Lon, radius2, roundingOfCall) ==
    LET distance ==
            getDistanceInMeters(center1Lat, center1Lon, center2Lat, center2Lon)
    IN  IF PartialBranch(distance, radius1, radius2, roundingOfCall)
        THEN PartialRounded(distance, radius1, radius2, roundingOfCall)
        ELSE IF NoOverlap(distance, radius1, radius2) THEN Num(0)
             ELSE ContainedCoverage(radius1, radius2)

\* calculateCircleOverlap in exact arithmetic.
calculateCircleOverlap(center1Lat, center1Lon, radius1, center2Lat, center2Lon, radius2) ==
    circleOverlap(center1Lat, center1Lon, radius1, center2Lat, center2Lon, radius2, 0)

\* determineAttendanceStatus with > in place of >=.
determineAttendanceStatusStrict(coveragePercentage) ==
    IF NumGt(coveragePercentage, Num(50 * Scale)) THEN "present" ELSE "proxy"

\* coveragePercentage >= 50 ? 'present' : 'proxy'
determineAttendanceStatus(coveragePercentage) ==
    IF NumGe(coveragePercentage, Num(50 * Scale)) THEN "present" ELSE "proxy"

(* ------------------------- roster lookup ------------------------------ *)

\* A JS string is the sequence of its characters.  The alphabet: a letter in
\* lower and in upper case, and the space.
Chars == {"a", "A", " "}

\* String.prototype.toLowerCase
toLowerCase(s) == [i \in 1..Len(s) |-> IF s[i] = "A" THEN "a" ELSE s[i]]

\* String.prototype.trim: the leading and the trailing white space removed.
RECURSIVE trimStart(_)
trimStart(s) ==
    IF s # <<>> /\ Head(s) = " " THEN trimStart(Tail(s)) ELSE s

RECURSIVE trimEnd(_)
trimEnd(s) ==
    IF s # <<>> /\ s[Len(s)] = " "
    THEN trimEnd(SubSeq(s, 1, Len(s) - 1))
    ELSE s

trim(s) == trimEnd(trimStart(s))

\* The value null, and a name that is not null.
Null == [isNull |-> TRUE, v |-> 0]
Name(x) == [isNull |-> FALSE, v |-> x]

\* isStudentInList with the comparison made without trim().
isStudentInListUntrimmed(studentRegistration, facultyList) ==
    LET studentRegLower == toLowerCase(studentRegistration)
    IN  \E i \in 1..Len(facultyList) :
            toLowerCase(facultyList[i].registration_number)
                = studentRegLower

\* facultyList.some(student =>
\*     student.registration_number.toLowerCase().trim() === studentRegLower)
isStudentInList(studentRegistration, facultyList) ==
    LET studentRegLower == trim(toLowerCase(studentRegistration))
    IN  \E i \in 1..Len(facultyList) :
            trim(toLowerCase(facultyList[i].registration_number))
                = studentRegLower

\* facultyList.find(...): the first matching entry;
\* student ? student.name : null
getStudentName(studentRegistration, facultyList) ==
    LET studentRegLower == trim(toLowerCase(studentRegistration))
        found == {i \in 1..Len(facultyList) :
                     trim(toLowerCase(facultyList[i].registration_number))
                         = studentRegLower}
    IN  IF found = {} THEN Null
        ELSE facultyList[CHOOSE i \in found : \A j \in found : i <= j].name

(* --------------------------- GeoUtils ---------------------------------- *)

\* The optional parameter threshold: absent, or given with a value.
Undefined == [given |-> FALSE, v |-> 0]
Given(x) == [given |-> TRUE, v |-> x]

\* determineStatus with the two network tests joined by "or".
determineStatusEitherWifi(distance, originWifi, markedWifi, thresholdArg) ==
    LET threshold == IF thresholdArg.given THEN thresholdArg.v ELSE 30
    IN  IF NumLe(distance, Num(threshold)) THEN "present"
        ELSE IF /\ (originWifi = "iBUS@MUJ" \/ markedWifi = "iBUS@MUJ")
                /\ NumLe(distance, Num(50))
             THEN "present"
        ELSE IF NumGt(distance, Num(50)) THEN "absent"
        ELSE "pending"

\* determineStatus with the extended range's distance limit left out.
determineStatusNoRange(distance, originWifi, markedWifi, thresholdArg) ==
    LET threshold == IF thresholdArg.given THEN thresholdArg.v ELSE 30
    IN  IF NumLe(distance, Num(threshold)) THEN "present"
        ELSE IF originWifi = "iBUS@MUJ" /\ markedWifi = "iBUS@MUJ"
             THEN "present"
        ELSE IF NumGt(distance, Num(50)) THEN "absent"
        ELSE "pending"

determineStatus(distance, originWifi, markedWifi, thresholdArg) ==
    LET threshold == IF thresholdArg.given THEN thresholdArg.v ELSE 30
    IN  IF NumLe(distance, Num(threshold)) THEN "present"
        ELSE IF /\ originWifi = "iBUS@MUJ"
                /\ markedWifi = "iBUS@MUJ"
                /\ NumLe(distance, Num(50))
             THEN "present"
        ELSE IF NumGt(distance, Num(50)) THEN "absent"
        ELSE "pending"

(* ------------------------- LocationService ---------------------------- *)

\* const maxReadings = 3
maxReadings == 3

\* x || d for an accuracy x (number | null): d when x is null or 0.
OrElse(x, d) == IF x.given /\ x.v # 0 THEN x.v ELSE d

\* reading.coords.accuracy && reading.coords.accuracy < 5
VeryAccurate(reading) ==
    reading.accuracy.given /\ reading.accuracy.v # 0 /\ reading.accuracy.v < 5

\* readings.reduce((best, current) =>
\*     (current.coords.accuracy || 999) < (best.coords.accuracy || 999)
\*         ? current : best)
\* with no initial value: best starts at the first reading and current runs
\* over the rest.  Readings are named by their position.
RECURSIVE reduceBest(_, _, _)
reduceBest(rs, best, current) ==
    IF current > Len(rs) THEN best
    ELSE reduceBest(rs,
                    IF OrElse(rs[current].accuracy, 999)
                           < OrElse(rs[best].accuracy, 999)
                    THEN current ELSE best,
                    current + 1)

(* ----------------------------- inputs --------------------------------- *)

Latitudes == {Num(x) : x \in 0..MaxLat} \cup {NaN, Infinity}
Longitudes == {Num(0), NaN, Infinity}
Radii == -1..MaxRadius
Coverages ==
    {Num(p * Scale + e) : p \in 0..MaxPercent, e \in {-1, 0, 1}} \cup {NaN}
Distances == {Num(x) : x \in 0..MaxDistance} \cup {NaN}
Wifis == {"iBUS@MUJ", "Other", "null"}
Thresholds == {Given(x) : x \in 0..MaxThreshold} \cup {Undefined}

\* The arc length of 0.08 degrees, in metres.
LatStep == (HalfTurn * 8) \div (180 * 100)

\* Valid points for a direct call of getDistanceInMeters: latitudes up to
\* MaxLat steps of 0.08 degrees north or south of the equator, on the
\* meridian 0 or the meridian 180 degrees.
PointLatitudes == {Num(x * LatStep) : x \in -MaxLat..MaxLat}
PointLongitudes == {Num(0), Num(HalfTurn)}
\* The error of a computed double against the exact value, by its sign.
Roundings == {-1, 0, 1}

\* The strings of at most n characters.
Strings(n) == UNION {[1..k -> Chars] : k \in 0..n}

\* The rosters of n entries.  An entry's name is its position in the
\* roster, so that the names of a roster are distinct.
RostersOfLen(n) ==
    {[i \in 1..n |-> [name |-> Name(i), registration_number |-> regs[i]]] :
        regs \in [1..n -> Strings(MaxRegLen)]}

Rosters == UNION {RostersOfLen(n) : n \in 0..MaxRoster}

\* coords.accuracy of a reading: number | null.
ReadingAccuracies == {Given(x) : x \in 0..MaxAccuracy} \cup {Undefined}

(* ------------------------ state and actions --------------------------- *)

\* The student devices.
Devices == {"d1", "d2"}

\* The list the faculty uploaded: one student.
ClassList == <<[name |-> Name(1), registration_number |-> <<"a">>]>>

\* What a student may have as registration number (typed into the form of
\* StudentTab, or user.registration_number of MarkAttendanceTab): the
\* listed one, the same in upper case, the same with a trailing space, and
\* one that is not listed.
RegNos == {<<"a">>, <<"A">>, <<"a", " ">>, <<"a", "a">>}

\* A row of the table sessions, and currentSession = null.
NoSession ==
    [id |-> "", student_list |-> <<>>, session_latitude |-> Num(0),
     session_longitude |-> Num(0), session_accuracy |-> 0,
     session_radius |-> 0, wifi_ssid |-> "null", is_active |-> FALSE]

\* The screen of a student device before anything is done on it.
StudentIdle(regNo) ==
    [pc |-> "idle", regNo |-> regNo, currentSession |-> NoSession,
     isLoading |-> FALSE, attendanceMarked |-> FALSE, alert |-> "none",
     error |-> "none", locationAcquired |-> FALSE, overlap |-> <<>>,
     insert |-> <<>>]

\* The faculty screen with the list uploaded and no session started.
FacultyIdle ==
    [pc |-> "idle", students |-> ClassList, currentSession |-> NoSession,
     isLoading |-> FALSE, alert |-> "none"]

\* The application is not running.
AppIdle ==
    /\ sessions = {}
    /\ attendance = {}
    /\ faculty = FacultyIdle
    /\ student = [d \in Devices |-> StudentIdle(<<>>)]
    /\ ssid = [d \in Devices |-> "null"]
    /\ tab = [d \in Devices |-> "StudentTab"]
    /\ service = 1

\* No GPS acquisition is under way.
GpsIdle ==
    /\ loopI = 0
    /\ readings = <<>>
    /\ gpsPc = "idle"
    /\ bestReading = 0
    /\ locationData = Undefined

\* The values a callback closes over: students and currentSession of the
\* render that created it (currentSession: a session id, or 0 for null).
NoClosure == [students |-> <<>>, currentSession |-> 0]

\* An interval that is not set.
NoInterval == [set |-> FALSE, closure |-> NoClosure]

\* The faculty screen is not mounted.
FacIdle ==
    /\ facultyTab = [students |-> <<>>, timeRemaining |-> 0,
                     sessionActive |-> FALSE, currentSession |-> 0]
    /\ countdown = NoInterval
    /\ polling = NoInterval
    /\ running = {}
    /\ sessionRows = <<>>
    /\ attendanceRows = <<>>

\* No call of the multi-method getHighAccuracyLocation is under way.
LocIdle ==
    /\ locationMethods = <<>>
    /\ timeoutPromise = "none"
    /\ locPc = "idle"
    /\ locResult = <<>>

\* No call of getLocationForAttendance is under way.
AttIdle ==
    /\ requiredAccuracy = Undefined
    /\ maxAttempts = Undefined
    /\ attempt = 0
    /\ acquired = <<>>
    /\ attPc = "idle"
    /\ attResult = <<>>

\* No engine call is under way.
CallIdle ==
    /\ fn = "none"
    /\ args = <<>>
    /\ ret = <<>>
    /\ thrown = "none"
    /\ pc = "idle"
    /\ rounding = 0

OverlapCalls ==
    [center1Lat : Latitudes, center1Lon : Longitudes, radius1 : Radii,
     center2Lat : Latitudes, center2Lon : Longitudes, radius2 : Radii]

StatusCalls ==
    [distance : Distances, originWifi : Wifis, markedWifi : Wifis,
     threshold : Thresholds]

DistanceCalls ==
    [lat1 : PointLatitudes, lon1 : PointLongitudes,
     lat2 : PointLatitudes, lon2 : PointLongitudes]

\* determineAttendanceStatus declares one parameter.  A caller may hand it a
\* second argument, a minimumCoveragePercent, or none.
AttendanceStatusCalls ==
    [coveragePercentage : Coverages,
     minimumCoveragePercent :
         {Given(p) : p \in 0..MaxPercent} \cup {Undefined}]

RosterCalls ==
    [studentRegistration : Strings(MaxIdLen), facultyList : Rosters]

\* A caller is about to call one engine function with some arguments.
Init ==
    /\ GpsIdle
    /\ AppIdle
    /\ AttIdle
    /\ LocIdle
    /\ FacIdle
    /\ pc = "call"
    /\ ret = <<>>
    /\ thrown = "none"
    /\ \/ fn = "calculateCircleOverlap" /\ args \in OverlapCalls
            /\ rounding \in Roundings
       \/ fn = "determineAttendanceStatus"
            /\ args \in AttendanceStatusCalls
            /\ rounding = 0
       \/ fn = "determineStatus" /\ args \in StatusCalls /\ rounding = 0
       \/ fn = "isStudentInList" /\ args \in RosterCalls /\ rounding = 0
       \/ fn = "getStudentName" /\ args \in RosterCalls /\ rounding = 0
       \/ fn = "getDistanceInMeters" /\ args \in DistanceCalls
            /\ rounding \in Roundings

\* CircleUtils.calculateCircleOverlap runs.  The function has no throw
\* statement: every call returns.
CalculateCircleOverlap ==
    /\ pc = "call"
    /\ fn = "calculateCircleOverlap"
    /\ ret' = circleOverlap(args.center1Lat, args.center1Lon, args.radius1,
                            args.center2Lat, args.center2Lon, args.radius2,
                            rounding)
    /\ thrown' = "none"
    /\ pc' = "done"
    /\ UNCHANGED <<fn, args, rounding>>
    /\ UNCHANGED notCallVars

\* The caller hands the coverage just computed to determineAttendanceStatus
\* (submitAttendance, markAttendance).
PassCoverage ==
    /\ pc = "done"
    /\ fn = "calculateCircleOverlap"
    /\ fn' = "determineAttendanceStatus"
    /\ args' = [coveragePercentage |-> ret,
                 minimumCoveragePercent |-> Undefined]
    /\ ret' = <<>>
    /\ pc' = "call"
    /\ UNCHANGED <<thrown, rounding>>
    /\ UNCHANGED notCallVars

\* CircleUtils.determineAttendanceStatus runs.  It reads its one parameter;
\* an argument beyond it is not bound to anything.
DetermineAttendanceStatus ==
    /\ pc = "call"
    /\ fn = "determineAttendanceStatus"
    /\ ret' = determineAttendanceStatus(args.coveragePercentage)
    /\ thrown' = "none"
    /\ pc' = "done"
    /\ UNCHANGED <<fn, args, rounding>>
    /\ UNCHANGED notCallVars

\* GeoUtils.determineStatus runs.
DetermineStatus ==
    /\ pc = "call"
    /\ fn = "determineStatus"
    /\ ret' = determineStatus(args.distance, args.originWifi, args.markedWifi,
                              args.threshold)
    /\ thrown' = "none"
    /\ pc' = "done"
    /\ UNCHANGED <<fn, args, rounding>>
    /\ UNCHANGED notCallVars

\* CircleUtils.isStudentInList runs.
IsStudentInList ==
    /\ pc = "call"
    /\ fn = "isStudentInList"
    /\ ret' = isStudentInList(args.studentRegistration, args.facultyList)
    /\ thrown' = "none"
    /\ pc' = "done"
    /\ UNCHANGED <<fn, args, rounding>>
    /\ UNCHANGED notCallVars

\* CircleUtils.getStudentName runs.
GetStudentName ==
    /\ pc = "call"
    /\ fn = "getStudentName"
    /\ ret' = getStudentName(args.studentRegistration, args.facultyList)
    /\ thrown' = "none"
    /\ pc' = "done"
    /\ UNCHANGED <<fn, args, rounding>>
    /\ UNCHANGED notCallVars

\* CircleUtils.getDistanceInMeters runs.
GetDistanceInMeters ==
    /\ pc = "call"
    /\ fn = "getDistanceInMeters"
    /\ ret' = haversine(args.lat1, args.lon1, args.lat2, args.lon2, rounding)
    /\ thrown' = "none"
    /\ pc' = "done"
    /\ UNCHANGED <<fn, args, rounding>>
    /\ UNCHANGED notCallVars

Next ==
    \/ CalculateCircleOverlap
    \/ PassCoverage
    \/ DetermineAttendanceStatus
    \/ DetermineStatus
    \/ IsStudentInList
    \/ GetStudentName
    \/ GetDistanceInMeters

Spec == Init /\ [][Next]_vars

(* ----------------------- the GPS reading loop ------------------------- *)

\* getHighAccuracyGPSLocation has reached its loop: i = 0, readings = [].
GpsInit ==
    /\ CallIdle
    /\ AppIdle
    /\ AttIdle
    /\ LocIdle
    /\ FacIdle
    /\ loopI = 0
    /\ readings = <<>>
    /\ gpsPc = "loop"
    /\ bestReading = 0
    /\ locationData = Undefined

\* Location.getCurrentPositionAsync resolves: the reading is pushed; a very
\* accurate one breaks the loop, any other goes on to i++.
ReadingSucceeds ==
    /\ gpsPc = "loop"
    /\ loopI < maxReadings
    /\ \E accuracy \in ReadingAccuracies :
          LET reading == [accuracy |-> accuracy]
          IN  /\ readings' = Append(readings, reading)
              /\ IF VeryAccurate(reading)
                 THEN gpsPc' = "select" /\ loopI' = loopI
                 ELSE gpsPc' = "loop" /\ loopI' = loopI + 1
    /\ UNCHANGED <<bestReading, locationData>>
    /\ UNCHANGED notGpsVars

\* Location.getCurrentPositionAsync rejects: the first failure is thrown,
\* a later one is logged and the loop goes on to i++.
ReadingFails ==
    /\ gpsPc = "loop"
    /\ loopI < maxReadings
    /\ IF loopI = 0
       THEN gpsPc' = "thrown" /\ loopI' = loopI
       ELSE gpsPc' = "loop" /\ loopI' = loopI + 1
    /\ UNCHANGED <<readings, bestReading, locationData>>
    /\ UNCHANGED notGpsVars

\* i < maxReadings is false: the loop ends.
LoopEnds ==
    /\ gpsPc = "loop"
    /\ loopI >= maxReadings
    /\ gpsPc' = "select"
    /\ UNCHANGED <<loopI, readings, bestReading, locationData>>
    /\ UNCHANGED notGpsVars

\* After the loop: no reading throws; otherwise the reading selected by the
\* reduce is returned, with accuracy: bestReading.coords.accuracy || 0.
SelectBestReading ==
    /\ gpsPc = "select"
    /\ IF Len(readings) = 0
       THEN /\ gpsPc' = "thrown"
            /\ UNCHANGED <<bestReading, locationData>>
       ELSE /\ gpsPc' = "returned"
            /\ bestReading' = reduceBest(readings, 1, 2)
            /\ locationData' =
                   Given(OrElse(readings[reduceBest(readings, 1, 2)].accuracy,
                                0))
    /\ UNCHANGED <<loopI, readings>>
    /\ UNCHANGED notGpsVars

GpsNext ==
    \/ ReadingSucceeds
    \/ ReadingFails
    \/ LoopEnds
    \/ SelectBestReading

SpecGps == GpsInit /\ [][GpsNext]_vars

(* -------------------- the attendance application ---------------------- *)

\* const sessionRadius = locationData.coords.accuracy + 10
sessionRadius(accuracy) == accuracy + 10

\* The student's radius with the margin left out.
studentRadiusRaw(accuracy) == accuracy

\* const studentRadius = locationData.coords.accuracy + 1
studentRadius(accuracy) == accuracy + 1

\* The roster check left out.
notInListNever(regNo, currentSession) == FALSE

\* !CircleUtils.isStudentInList(regNo, currentSession.student_list)
notInList(regNo, currentSession) ==
    ~isStudentInList(regNo, currentSession.student_list)

\* The alert for a failed insert with no case for the code 23505.
insertErrorAlertGeneric(code) == "Failed to submit attendance"

\* The alert for a failed insert: error.code === '23505' has its own
\* message; any other error shows the error's message (StudentTab directly,
\* MarkAttendanceTab by throwing to its catch block).
insertErrorAlert(code) ==
    IF code = "23505"
    THEN "You have already marked attendance for this session"
    ELSE "Failed to submit attendance"

\* The answers to the alert of promptWiFiConnection.
PromptChoices == {"Cancel", "Continue Anyway", "Check Again"}

\* Whether getHighAccuracyLocation goes on to locate a device on the given
\* network.  Version 1 throws unless wifiSSID === 'iBUS@MUJ'.  Version 2
\* asks promptWiFiConnection: true when connected to the campus network;
\* otherwise the alert's answer decides: 'Cancel' resolves false, 'Continue
\* Anyway' resolves true, 'Check Again' resolves the result of a second
\* checkWiFiConnection.
wifiOk(version, network, choice) ==
    IF version = 1
    THEN network = "iBUS@MUJ"
    ELSE \/ network = "iBUS@MUJ"
         \/ choice = "Continue Anyway"

\* The network a student device is on: the campus WiFi, or no WiFi (ssid
\* null).
Networks == {"iBUS@MUJ", "null"}

\* Where a student's location may be: at the session's centre or MaxLat
\* metres north of it.
StudentLatitudes == {Num(0), Num(MaxLat)}

\* The screens are open: the faculty has uploaded the list, each student
\* device has its registration number, its network and its screen.  The
\* registration number of a user of MarkAttendanceTab was trimmed when the
\* profile was created; the one typed into StudentTab is as typed.
AppInit ==
    /\ CallIdle
    /\ GpsIdle
    /\ AttIdle
    /\ LocIdle
    /\ FacIdle
    /\ sessions = {}
    /\ attendance = {}
    /\ faculty = FacultyIdle
    /\ student \in [Devices -> {StudentIdle(regNo) : regNo \in RegNos}]
    /\ ssid \in [Devices -> Networks]
    /\ tab \in [Devices -> {"StudentTab", "MarkAttendanceTab"}]
    /\ \A d \in Devices :
          tab[d] = "MarkAttendanceTab"
              => student[d].regNo = trim(student[d].regNo)
    /\ service \in {1, 2}

\* FacultyTab.startSession up to its first await.
StartSession ==
    /\ faculty.pc = "idle"
    /\ Len(faculty.students) > 0
    /\ faculty' = [faculty EXCEPT !.isLoading = TRUE, !.pc = "verifying"]
    /\ UNCHANGED <<sessions, attendance, student, ssid, tab, service>>
    /\ UNCHANGED notAppVars

\* verifyiBUSConnection resolves for the faculty device.
FacultyWifiVerified ==
    /\ faculty.pc = "verifying"
    /\ \E isConnectedToiBUS \in BOOLEAN :
          faculty' =
              IF isConnectedToiBUS
              THEN [faculty EXCEPT !.pc = "locating"]
              ELSE [faculty EXCEPT !.alert = "WiFi Required",
                                   !.isLoading = FALSE, !.pc = "idle"]
    /\ UNCHANGED <<sessions, attendance, student, ssid, tab, service>>
    /\ UNCHANGED notAppVars

\* getHighAccuracyLocation rejects for the faculty device: catch, finally.
FacultyLocationThrows ==
    /\ faculty.pc = "locating"
    /\ faculty' = [faculty EXCEPT !.alert = "Failed to create session",
                                  !.isLoading = FALSE, !.pc = "idle"]
    /\ UNCHANGED <<sessions, attendance, student, ssid, tab, service>>
    /\ UNCHANGED notAppVars

\* getHighAccuracyLocation resolves for the faculty device; the session is
\* inserted with session_radius = sessionRadius and becomes current.
SessionInserted ==
    /\ faculty.pc = "locating"
    /\ \E accuracy \in 0..MaxFix :
          LET row == [id |-> "100000",
                      student_list |-> faculty.students,
                      session_latitude |-> Num(0),
                      session_longitude |-> Num(0),
                      session_accuracy |-> accuracy,
                      session_radius |-> sessionRadius(accuracy),
                      wifi_ssid |-> "iBUS@MUJ",
                      is_active |-> TRUE]
          IN  /\ sessions' = sessions \cup {row}
              /\ faculty' = [faculty EXCEPT !.currentSession = row,
                                            !.alert = "Session Created!",
                                            !.isLoading = FALSE,
                                            !.pc = "active"]
    /\ UNCHANGED <<attendance, student, ssid, tab, service>>
    /\ UNCHANGED notAppVars

\* verifySession (StudentTab) / findSession (MarkAttendanceTab): the active
\* session of the code entered becomes currentSession.
FindSession(d) ==
    /\ student[d].pc = "idle"
    /\ student[d].currentSession = NoSession
    /\ \E data \in sessions :
          /\ data.is_active
          /\ student' = [student EXCEPT ![d].currentSession = data]
    /\ UNCHANGED <<sessions, attendance, faculty, ssid, tab, service>>
    /\ UNCHANGED notAppVars

\* StudentTab.submitAttendance up to its first await.
SubmitAttendance(d) ==
    /\ tab[d] = "StudentTab"
    /\ student[d].pc = "idle"
    /\ student' = [student EXCEPT ![d] =
          IF @.regNo = <<>> \/ @.currentSession = NoSession
          THEN [@ EXCEPT !.alert = "Please fill in all required fields",
                         !.error = "none", !.locationAcquired = FALSE]
          ELSE [@ EXCEPT !.isLoading = TRUE, !.pc = "verifying",
                         !.error = "none", !.locationAcquired = FALSE]]
    /\ UNCHANGED <<sessions, attendance, faculty, ssid, tab, service>>
    /\ UNCHANGED notAppVars

\* StudentTab.submitAttendance: verifyiBUSConnection resolves (false also
\* when NetInfo.fetch fails), then the roster check, then the call of
\* getHighAccuracyLocation.
WifiVerified(d) ==
    /\ student[d].pc = "verifying"
    /\ \E isConnectedToiBUS \in {ssid[d] = "iBUS@MUJ", FALSE} :
          student' = [student EXCEPT ![d] =
              IF ~isConnectedToiBUS
              THEN [@ EXCEPT !.alert = "WiFi Required",
                             !.isLoading = FALSE, !.pc = "idle"]
              ELSE IF notInList(@.regNo, @.currentSession)
              THEN [@ EXCEPT !.alert = "Registration Not Found",
                             !.isLoading = FALSE, !.pc = "idle"]
              ELSE [@ EXCEPT !.pc = "locating", !.locationAcquired = TRUE]]
    /\ UNCHANGED <<sessions, attendance, faculty, ssid, tab, service>>
    /\ UNCHANGED notAppVars

\* MarkAttendanceTab.markAttendance up to its first await; the button is
\* shown while attendanceMarked is false.
MarkAttendance(d) ==
    /\ tab[d] = "MarkAttendanceTab"
    /\ student[d].pc = "idle"
    /\ ~student[d].attendanceMarked
    /\ student' = [student EXCEPT ![d] =
          IF @.currentSession = NoSession
          THEN [@ EXCEPT !.alert = "Session or user data missing",
                         !.error = "none", !.locationAcquired = FALSE]
          ELSE IF notInList(@.regNo, @.currentSession)
          THEN [@ EXCEPT !.alert = "Registration Not Found",
                         !.error = "none", !.locationAcquired = FALSE]
          ELSE [@ EXCEPT !.isLoading = TRUE, !.pc = "locating",
                         !.error = "none", !.locationAcquired = TRUE]]
    /\ UNCHANGED <<sessions, attendance, faculty, ssid, tab, service>>
    /\ UNCHANGED notAppVars

\* getHighAccuracyLocation rejects (the WiFi gate, the permission, the
\* location services, every location method): catch, finally.
LocationThrows(d) ==
    /\ student[d].pc = "locating"
    /\ student' = [student EXCEPT ![d] =
          [@ EXCEPT !.alert = "Failed to submit attendance",
                    !.isLoading = FALSE, !.pc = "idle"]]
    /\ UNCHANGED <<sessions, attendance, faculty, ssid, tab, service>>
    /\ UNCHANGED notAppVars

\* getHighAccuracyLocation resolves: the handler derives the radius, calls
\* the engine, and sends the insert.  The record's field device is not a
\* column: it names the device the record came from.
LocationReturns(d) ==
    /\ student[d].pc = "locating"
    /\ \E choice \in PromptChoices : wifiOk(service, ssid[d], choice)
    /\ \E accuracy \in 0..MaxFix, latitude \in StudentLatitudes :
          LET currentSession == student[d].currentSession
              regNo == student[d].regNo
              wifiSSID == ssid[d]
              radius == studentRadius(accuracy)
              distance ==
                  getDistanceInMeters(currentSession.session_latitude,
                                      currentSession.session_longitude,
                                      latitude, Num(0))
              coveragePercentage ==
                  calculateCircleOverlap(currentSession.session_latitude,
                                         currentSession.session_longitude,
                                         currentSession.session_radius,
                                         latitude, Num(0), radius)
              status == determineAttendanceStatus(coveragePercentage)
              listedName == getStudentName(regNo, currentSession.student_list)
              row == [session_id |-> currentSession.id,
                      student_name |->
                          IF tab[d] = "StudentTab" /\ ~listedName.isNull
                          THEN listedName
                          ELSE Name(0),
                      student_registration |-> regNo,
                      student_latitude |-> latitude,
                      student_accuracy |-> accuracy,
                      student_radius |-> radius,
                      distance_from_session |-> distance,
                      coverage_percentage |-> coveragePercentage,
                      status |-> status,
                      wifi_ssid |->
                          IF tab[d] = "MarkAttendanceTab" /\ wifiSSID = "null"
                          THEN "iBUS@MUJ"
                          ELSE wifiSSID,
                      device |-> d]
          IN  student' = [student EXCEPT ![d] =
                  [@ EXCEPT !.pc = "inserting",
                            !.overlap =
                                [radius1 |-> currentSession.session_radius,
                                 radius2 |-> radius],
                            !.insert = row]]
    /\ UNCHANGED <<sessions, attendance, faculty, ssid, tab, service>>
    /\ UNCHANGED notAppVars

\* The database runs the insert under UNIQUE(session_id,
\* student_registration), and the handler takes the result: the error
\* 23505, or success (StudentTab resets its form, MarkAttendanceTab sets
\* attendanceMarked); finally.  The handler's locals end with it.
AttendanceInsert(d) ==
    /\ student[d].pc = "inserting"
    /\ LET row == student[d].insert
           duplicate ==
               \E r \in attendance :
                   /\ r.session_id = row.session_id
                   /\ r.student_registration = row.student_registration
       IN  IF duplicate
           THEN /\ attendance' = attendance
                /\ student' = [student EXCEPT ![d] =
                       [@ EXCEPT !.error = "23505",
                                 !.alert = insertErrorAlert("23505"),
                                 !.overlap = <<>>, !.insert = <<>>,
                                 !.isLoading = FALSE, !.pc = "idle"]]
           ELSE /\ attendance' = attendance \cup {row}
                /\ student' = [student EXCEPT ![d] =
                       IF tab[d] = "StudentTab"
                       THEN [@ EXCEPT !.alert = "Attendance Submitted!",
                                      !.regNo = <<>>,
                                      !.currentSession = NoSession,
                                      !.overlap = <<>>, !.insert = <<>>,
                                      !.isLoading = FALSE, !.pc = "idle"]
                       ELSE [@ EXCEPT !.alert = "Attendance Marked!",
                                      !.attendanceMarked = TRUE,
                                      !.overlap = <<>>, !.insert = <<>>,
                                      !.isLoading = FALSE, !.pc = "idle"]]
    /\ UNCHANGED <<sessions, faculty, ssid, tab, service>>
    /\ UNCHANGED notAppVars

\* The insert fails with another error (the connection, a policy).
InsertFails(d) ==
    /\ student[d].pc = "inserting"
    /\ student' = [student EXCEPT ![d] =
          [@ EXCEPT !.error = "other",
                    !.alert = insertErrorAlert("other"),
                    !.overlap = <<>>, !.insert = <<>>,
                    !.isLoading = FALSE, !.pc = "idle"]]
    /\ UNCHANGED <<sessions, attendance, faculty, ssid, tab, service>>
    /\ UNCHANGED notAppVars

AppNext ==
    \/ StartSession
    \/ FacultyWifiVerified
    \/ FacultyLocationThrows
    \/ SessionInserted
    \/ \E d \in Devices : FindSession(d)
    \/ \E d \in Devices : SubmitAttendance(d)
    \/ \E d \in Devices : WifiVerified(d)
    \/ \E d \in Devices : MarkAttendance(d)
    \/ \E d \in Devices : LocationThrows(d)
    \/ \E d \in Devices : LocationReturns(d)
    \/ \E d \in Devices : AttendanceInsert(d)
    \/ \E d \in Devices : InsertFails(d)

SpecApp == AppInit /\ [][AppNext]_vars

(* --------------------- getLocationForAttendance ----------------------- *)

\* requiredAccuracy: number = 30, maxAttempts: number = 3
defaultRequiredAccuracy == 30
defaultMaxAttempts == 3

\* The value of a parameter with a default: the default when the argument
\* is undefined.
OrDefault(x, d) == IF x.given THEN x.v ELSE d

\* A validation that accepts every location.
validateAlways(location, required) == TRUE

\* location.coords.accuracy <= requiredAccuracy: false for an accuracy that
\* is not a number.
validateLocationForAttendance(location, required) ==
    location.accuracy.given /\ location.accuracy.v <= required

\* The accuracies of the locations getHighAccuracyLocation resolves with:
\* around the accuracies asked for and around the default, or none.
AttAccuracies ==
    {Given(x) : x \in 0..(MaxRequired + 1)}
        \cup {Given(defaultRequiredAccuracy),
              Given(defaultRequiredAccuracy + 1), Undefined}

\* The outcome of one call of getHighAccuracyLocation.
Fulfilled(location) == [fulfilled |-> TRUE, location |-> location]
Rejected == [fulfilled |-> FALSE, location |-> [accuracy |-> Undefined]]

\* What the call has settled with: nothing yet, a location or an error.
Unsettled == [location |-> [accuracy |-> Undefined], error |-> "none"]
Returns(location) == [location |-> location, error |-> "none"]
Throws(message) == [location |-> [accuracy |-> Undefined], error |-> message]

\* getLocationForAttendance has been called.
AttInit ==
    /\ CallIdle
    /\ GpsIdle
    /\ AppIdle
    /\ LocIdle
    /\ FacIdle
    /\ requiredAccuracy \in {Given(x) : x \in 0..MaxRequired} \cup {Undefined}
    /\ maxAttempts \in {Given(x) : x \in 0..MaxAttempts} \cup {Undefined}
    /\ attempt = 0
    /\ acquired = <<>>
    /\ attPc = "called"
    /\ attResult = Unsettled

\* attempt = 1 and the first test of the loop: the first call of
\* getHighAccuracyLocation is made, or, with no attempt allowed, the throw
\* after the loop is reached.
EnterLoop ==
    /\ attPc = "called"
    /\ attempt' = 1
    /\ IF 1 <= OrDefault(maxAttempts, defaultMaxAttempts)
       THEN attPc' = "calling" /\ attResult' = attResult
       ELSE /\ attPc' = "thrown"
            /\ attResult' = Throws("All location attempts failed")
    /\ UNCHANGED <<requiredAccuracy, maxAttempts, acquired>>
    /\ UNCHANGED notAttVars

\* getHighAccuracyLocation resolves.  A valid location is returned; an
\* insufficient one starts the 2 s delay, or, on the last attempt, throws
\* 'Could not achieve required accuracy', which the catch throws on.
AttemptFulfils ==
    /\ attPc = "calling"
    /\ \E accuracy \in AttAccuracies :
          LET location == [accuracy |-> accuracy]
              required ==
                  OrDefault(requiredAccuracy, defaultRequiredAccuracy)
          IN  /\ acquired' = Append(acquired, Fulfilled(location))
              /\ IF validateLocationForAttendance(location, required)
                 THEN attPc' = "returned" /\ attResult' = Returns(location)
                 ELSE IF attempt < OrDefault(maxAttempts, defaultMaxAttempts)
                      THEN attPc' = "waiting" /\ attResult' = attResult
                      ELSE /\ attPc' = "thrown"
                           /\ attResult' =
                                  Throws("Could not achieve required accuracy")
    /\ UNCHANGED <<requiredAccuracy, maxAttempts, attempt>>
    /\ UNCHANGED notAttVars

\* getHighAccuracyLocation rejects: the catch throws the error on if this
\* was the last attempt, and starts the 2 s delay otherwise.
AttemptRejects ==
    /\ attPc = "calling"
    /\ acquired' = Append(acquired, Rejected)
    /\ IF attempt = OrDefault(maxAttempts, defaultMaxAttempts)
       THEN /\ attPc' = "thrown"
            /\ attResult' = Throws("error of getHighAccuracyLocation")
       ELSE attPc' = "waiting" /\ attResult' = attResult
    /\ UNCHANGED <<requiredAccuracy, maxAttempts, attempt>>
    /\ UNCHANGED notAttVars

\* The 2 s delay ends: attempt++ and the test of the loop, then the next
\* call of getHighAccuracyLocation or the throw after the loop.
RetryDelayEnds ==
    /\ attPc = "waiting"
    /\ attempt' = attempt + 1
    /\ IF attempt + 1 <= OrDefault(maxAttempts, defaultMaxAttempts)
       THEN attPc' = "calling" /\ attResult' = attResult
       ELSE /\ attPc' = "thrown"
            /\ attResult' = Throws("All location attempts failed")
    /\ UNCHANGED <<requiredAccuracy, maxAttempts, acquired>>
    /\ UNCHANGED notAttVars

AttNext ==
    \/ EnterLoop
    \/ AttemptFulfils
    \/ AttemptRejects
    \/ RetryDelayEnds

SpecAtt == AttInit /\ [][AttNext]_vars

\* The steps of the function itself are taken: its first step runs, and a
\* timer set with setTimeout fires.  Nothing makes a call of
\* getHighAccuracyLocation settle.
SpecAttFair == SpecAtt /\ WF_vars(EnterLoop) /\ WF_vars(RetryDelayEnds)

(* ---------------- getHighAccuracyLocation, multi-method ---------------- *)

\* const locationMethods = [getGoogleFusedLocation(),
\*     getHighAccuracyGPSLocation(), getNetworkBasedLocation(),
\*     getIndoorPositioningLocation(wifiSSID)]: the source each method writes
\* into its location, in the order of the array.
Sources == <<"GoogleFused", "GPS", "Network", "IndoorPositioning">>

\* The states of a promise.
Pending == [status |-> "pending", accuracy |-> 0]
RejectedPromise == [status |-> "rejected", accuracy |-> 0]
FulfilledWith(accuracy) == [status |-> "fulfilled", accuracy |-> accuracy]

\* results.filter(result => result.status === 'fulfilled').map(...): the
\* fulfilled methods, by their position in locationMethods, in its order.
RECURSIVE successfulResults(_, _)
successfulResults(results, i) ==
    IF i > Len(results) THEN <<>>
    ELSE IF results[i].status = "fulfilled"
         THEN <<i>> \o successfulResults(results, i + 1)
         ELSE successfulResults(results, i + 1)

\* The first of the successful results, unsorted.
firstResult(results, successful) == successful[1]

\* successfulResults.sort((a, b) => a.coords.accuracy - b.coords.accuracy)
\* followed by [0]: the sort is stable, so the element that ends first is
\* the earliest of those with the smallest accuracy.
sortedFirst(results, successful) ==
    LET least(i) ==
            \A j \in 1..Len(successful) :
                results[successful[i]].accuracy
                    <= results[successful[j]].accuracy
    IN  successful[CHOOSE i \in 1..Len(successful) :
                       /\ least(i)
                       /\ \A j \in 1..(i - 1) : ~least(j)]

\* Promise.allSettled([...locationMethods, timeoutPromise]) has settled:
\* none of its promises is pending.
allSettled(results, timer) ==
    /\ \A i \in 1..Len(results) : results[i].status # "pending"
    /\ timer # "pending"

\* What the function does once the await is over: the code from the filter
\* to the return, the throw of the catch included.
AfterAwait(results) ==
    LET successful == successfulResults(results, 1)
    IN  IF Len(successful) = 0
        THEN [pc |-> "thrown", error |-> "All location methods failed",
              source |-> "none", accuracy |-> 0]
        ELSE [pc |-> "returned", error |-> "none",
              source |-> Sources[sortedFirst(results, successful)],
              accuracy |-> results[sortedFirst(results, successful)].accuracy]

\* A promise of the array has settled: the await goes on waiting unless
\* every promise has settled.
Settle(results, timer) ==
    /\ locationMethods' = results
    /\ timeoutPromise' = timer
    /\ IF allSettled(results, timer)
       THEN /\ locPc' = AfterAwait(results).pc
            /\ locResult' = AfterAwait(results)
       ELSE UNCHANGED <<locPc, locResult>>

\* The call has passed its checks, started the four methods and the timer,
\* and awaits Promise.allSettled.
LocInit ==
    /\ CallIdle
    /\ GpsIdle
    /\ AppIdle
    /\ AttIdle
    /\ FacIdle
    /\ locationMethods = [i \in 1..Len(Sources) |-> Pending]
    /\ timeoutPromise = "pending"
    /\ locPc = "awaiting"
    /\ locResult = <<>>

\* A location method resolves with a location: its accuracy is a number
\* (coords.accuracy || 0).
MethodFulfils(i) ==
    /\ locationMethods[i].status = "pending"
    /\ \E accuracy \in 0..MaxMethodAccuracy :
          Settle([locationMethods EXCEPT ![i] = FulfilledWith(accuracy)],
                 timeoutPromise)
    /\ UNCHANGED notLocVars

\* A location method rejects.
MethodRejects(i) ==
    /\ locationMethods[i].status = "pending"
    /\ Settle([locationMethods EXCEPT ![i] = RejectedPromise],
              timeoutPromise)
    /\ UNCHANGED notLocVars

\* The timer of 20000 ms fires: reject(new Error('Location timeout')).
TimeoutFires ==
    /\ timeoutPromise = "pending"
    /\ Settle(locationMethods, "rejected")
    /\ UNCHANGED notLocVars

LocNext ==
    \/ \E i \in 1..Len(Sources) : MethodFulfils(i)
    \/ \E i \in 1..Len(Sources) : MethodRejects(i)
    \/ TimeoutFires

SpecLoc == LocInit /\ [][LocNext]_vars

(* ------------------- the session of the faculty screen ---------------- *)

\* setTimeRemaining(600): the seconds a session lasts.
sessionSeconds == 600

\* The students of the list, by their position.
Class == 1..MaxClass

\* The values the functions of a render close over.
Closure(tabState) ==
    [students |-> tabState.students,
     currentSession |-> tabState.currentSession]

\* The component renders after a change of its state from old to new, and
\* the effects whose dependencies changed run again: the countdown effect
\* (sessionActive, timeRemaining) and the polling effect (sessionActive,
\* currentSession) clear their interval and set a new one, with the
\* callbacks of this render, if their condition holds.
Render(old, new) ==
    /\ countdown' =
           IF <<old.sessionActive, old.timeRemaining>>
                  = <<new.sessionActive, new.timeRemaining>>
           THEN countdown
           ELSE IF new.sessionActive /\ new.timeRemaining > 0
                THEN [set |-> TRUE, closure |-> Closure(new)]
                ELSE NoInterval
    /\ polling' =
           IF <<old.sessionActive, old.currentSession>>
                  = <<new.sessionActive, new.currentSession>>
           THEN polling
           ELSE IF new.sessionActive /\ new.currentSession # 0
                THEN [set |-> TRUE, closure |-> Closure(new)]
                ELSE NoInterval

\* students.map(student => ({...student, status: student.status ===
\*     'pending' ? 'absent' : student.status}))
pendingToAbsent(students) ==
    [i \in DOMAIN students |->
        IF students[i] = "pending" THEN "absent" ELSE students[i]]

\* students.map(student => { const attendance = data.find(...); ... }): the
\* status of the attendance record of the student, if there is one.
withAttendance(students, data) ==
    [i \in DOMAIN students |->
        IF data[i] # "none" THEN data[i] ELSE students[i]]

\* The end of endSession: setSessionActive(false), setTimeRemaining(0),
\* setCurrentSession(null).
Ended(students) ==
    [students |-> students, timeRemaining |-> 0,
     sessionActive |-> FALSE, currentSession |-> 0]

\* A call of endSession or fetchAttendanceRecords that awaits the database.
Call(name, closure) == [fn |-> name, closure |-> closure]

\* The screen is mounted with a student list uploaded (every status is
\* 'pending') and no session.
FacInit ==
    /\ CallIdle
    /\ GpsIdle
    /\ AppIdle
    /\ AttIdle
    /\ LocIdle
    /\ facultyTab = [students |-> [i \in Class |-> "pending"],
                     timeRemaining |-> 0,
                     sessionActive |-> FALSE, currentSession |-> 0]
    /\ countdown = NoInterval
    /\ polling = NoInterval
    /\ running = {}
    /\ sessionRows = [id \in 1..MaxSessions |-> "none"]
    /\ attendanceRows = [id \in 1..MaxSessions |-> [i \in Class |-> "none"]]

\* startSession, from the insert of the session on: the row is inserted
\* with is_active: true, and setTimeRemaining(600), setSessionActive(true),
\* setCurrentSession(...).  The button is disabled while sessionActive.
SessionCreated ==
    /\ ~facultyTab.sessionActive
    /\ \E id \in 1..MaxSessions :
          /\ sessionRows[id] = "none"
          /\ \A other \in 1..(id - 1) : sessionRows[other] # "none"
          /\ sessionRows' = [sessionRows EXCEPT ![id] = "active"]
          /\ LET new == [facultyTab EXCEPT !.timeRemaining = sessionSeconds,
                                           !.sessionActive = TRUE,
                                           !.currentSession = id]
             IN  facultyTab' = new /\ Render(facultyTab, new)
    /\ UNCHANGED <<running, attendanceRows>>
    /\ UNCHANGED notFacVars

\* A student's attendance for an active session is inserted.
AttendanceInserted ==
    /\ \E id \in 1..MaxSessions, i \in Class, status \in {"present", "proxy"} :
          /\ sessionRows[id] = "active"
          /\ attendanceRows[id][i] = "none"
          /\ attendanceRows' = [attendanceRows EXCEPT ![id][i] = status]
    /\ UNCHANGED <<facultyTab, countdown, polling, running, sessionRows>>
    /\ UNCHANGED notFacVars

\* The interval of the countdown effect fires: setTimeRemaining(prev =>
\* ...) counts down, and at prev <= 1 calls the endSession of the render
\* that set the interval, which runs to its await (or, with no
\* currentSession, to its end).
Tick ==
    /\ countdown.set
    /\ IF facultyTab.timeRemaining <= 1
       THEN IF countdown.closure.currentSession # 0
            THEN /\ running' =
                        running \cup {Call("endSession", countdown.closure)}
                 /\ LET new == [facultyTab EXCEPT !.timeRemaining = 0]
                    IN  facultyTab' = new /\ Render(facultyTab, new)
            ELSE /\ running' = running
                 /\ facultyTab' = Ended(facultyTab.students)
                 /\ Render(facultyTab, Ended(facultyTab.students))
       ELSE /\ running' = running
            /\ LET new == [facultyTab EXCEPT !.timeRemaining = @ - 1]
               IN  facultyTab' = new /\ Render(facultyTab, new)
    /\ UNCHANGED <<sessionRows, attendanceRows>>
    /\ UNCHANGED notFacVars

\* The End Session button, shown while sessionActive && currentSession, is
\* pressed: the endSession of the current render runs to its await.
EndPressed ==
    /\ facultyTab.sessionActive /\ facultyTab.currentSession # 0
    /\ running' = running \cup {Call("endSession", Closure(facultyTab))}
    /\ UNCHANGED <<facultyTab, countdown, polling, sessionRows,
                   attendanceRows>>
    /\ UNCHANGED notFacVars

\* endSession goes on after its await: the students it closed over, with
\* pending turned to absent, are set, and the session state is cleared.
EndSessionGoesOn(call) ==
    /\ call \in running /\ call.fn = "endSession"
    /\ running' = running \ {call}
    /\ LET new == Ended(pendingToAbsent(call.closure.students))
       IN  facultyTab' = new /\ Render(facultyTab, new)
    /\ UNCHANGED attendanceRows

\* The update of the session row succeeds, and endSession goes on.
SessionUpdated ==
    /\ \E call \in running :
          /\ EndSessionGoesOn(call)
          /\ sessionRows' =
                 [sessionRows EXCEPT ![call.closure.currentSession] =
                                         "inactive"]
    /\ UNCHANGED notFacVars

\* The update of the session row fails (the connection): the result, which
\* endSession does not look at, carries an error, and endSession goes on.
SessionUpdateFails ==
    /\ \E call \in running :
          /\ EndSessionGoesOn(call)
          /\ sessionRows' = sessionRows
    /\ UNCHANGED notFacVars

\* The interval of the polling effect fires: the fetchAttendanceRecords of
\* the render that set the interval runs to its await.
PollFires ==
    /\ polling.set
    /\ polling.closure.currentSession # 0
    /\ running' =
           running \cup {Call("fetchAttendanceRecords", polling.closure)}
    /\ UNCHANGED <<facultyTab, countdown, polling, sessionRows,
                   attendanceRows>>
    /\ UNCHANGED notFacVars

\* fetchAttendanceRecords goes on after its await with the records of its
\* session: the students it closed over, with the statuses of the records,
\* are set.
RecordsFetched ==
    /\ \E call \in running :
          /\ call.fn = "fetchAttendanceRecords"
          /\ running' = running \ {call}
          /\ LET data == attendanceRows[call.closure.currentSession]
                 new == [facultyTab EXCEPT !.students =
                             withAttendance(call.closure.students, data)]
             IN  facultyTab' = new /\ Render(facultyTab, new)
    /\ UNCHANGED <<sessionRows, attendanceRows>>
    /\ UNCHANGED notFacVars

\* fetchAttendanceRecords goes on with no data (the select failed).
FetchFails ==
    /\ \E call \in running :
          /\ call.fn = "fetchAttendanceRecords"
          /\ running' = running \ {call}
    /\ UNCHANGED <<facultyTab, countdown, polling, sessionRows,
                   attendanceRows>>
    /\ UNCHANGED notFacVars

FacNext ==
    \/ SessionCreated
    \/ AttendanceInserted
    \/ Tick
    \/ EndPressed
    \/ SessionUpdated
    \/ SessionUpdateFails
    \/ PollFires
    \/ RecordsFetched
    \/ FetchFails

SpecFac == FacInit /\ [][FacNext]_vars

\* A set interval fires, and the update a call of endSession awaits
\* settles.
SpecFacFair ==
    /\ SpecFac
    /\ WF_vars(Tick)
    /\ WF_vars(SessionUpdated \/ SessionUpdateFails)

(* ---------------------------- properties ------------------------------ *)

OverlapReturned == pc = "done" /\ fn = "calculateCircleOverlap"

\* Finite coordinates and radii >= 0.
ValidOverlapArgs ==
    /\ IsFinite(args.center1Lat) /\ IsFinite(args.center1Lon)
    /\ IsFinite(args.center2Lat) /\ IsFinite(args.center2Lon)
    /\ args.radius1 >= 0 /\ args.radius2 >= 0

\* The distance between the two centres of the call.
CentreDistance ==
    getDistanceInMeters(args.center1Lat, args.center1Lon,
                        args.center2Lat, args.center2Lon)

Hundred == Num(100 * Scale)

\* The doubles of the call stand a rounding error inside the partial range.
Inexact == JustInside(CentreDistance, args.radius1, args.radius2, rounding)

\* C1: for every valid input (finite coordinates, radius1 >= 0, radius2 >= 0)
\* calculateCircleOverlap returns a number in [0, 100], never NaN.
C1_CoverageInRange ==
    (OverlapReturned /\ ValidOverlapArgs)
        => /\ ret.k = "num"
           /\ 0 <= ret.v /\ ret.v <= 100 * Scale

\* C2: whenever the centre distance d satisfies d >= radius1 + radius2,
\* calculateCircleOverlap returns exactly 0, and the overlap-based decision
\* on that coverage is proxy.
C2_NoOverlapIsZero ==
    /\ (OverlapReturned /\ ~Inexact
          /\ NumGe(CentreDistance, Num(args.radius1 + args.radius2)))
         => ret = Num(0)
    /\ (/\ pc = "done" /\ fn = "determineAttendanceStatus"
        /\ args.coveragePercentage = Num(0))
         => ret = "proxy"

\* Two circles of positive radius exactly touching from outside: coverage 0.
C2_Witness ==
    /\ OverlapReturned /\ ValidOverlapArgs
    /\ args.radius1 > 0 /\ args.radius2 > 0
    /\ CentreDistance = Num(args.radius1 + args.radius2)
    /\ ret = Num(0)

\* C3: identical circles (same centre, same radius, any radius >= 0) have
\* coverage exactly 100.
C3_IdenticalIsHundred ==
    (/\ OverlapReturned /\ ValidOverlapArgs
     /\ args.center1Lat = args.center2Lat
     /\ args.center1Lon = args.center2Lon
     /\ args.radius1 = args.radius2)
        => ret = Hundred

\* C4: in the containment case d <= |radius1 - radius2| the coverage is 100
\* when the claimant circle (circle 2) lies inside the anchor circle, and
\* (radius1 / radius2)^2 * 100 when the anchor lies inside the claimant.
C4_ContainmentByClaimantArea ==
    (/\ OverlapReturned /\ ValidOverlapArgs /\ ~Inexact
     /\ NumLe(CentreDistance, Num(Abs(args.radius1 - args.radius2))))
        => ret = IF args.radius2 <= args.radius1
                 THEN Hundred
                 ELSE Num(100 * ((args.radius1 * args.radius1 * Scale)
                                    \div (args.radius2 * args.radius2)))

\* C5: with radius1 = 0 or radius2 = 0 the result is a point-in-circle test:
\* exactly 100 when the zero-radius point lies within the other circle,
\* exactly 0 otherwise.
C5_ZeroRadiusPointInCircle ==
    (/\ OverlapReturned /\ ValidOverlapArgs
     /\ (args.radius1 = 0 \/ args.radius2 = 0))
        => ret = IF CentreDistance.v <= Max(args.radius1, args.radius2)
                 THEN Hundred
                 ELSE Num(0)

\* C6: determineAttendanceStatus returns present if and only if the coverage
\* is >= 50, and proxy otherwise.
C6_PresentIffHalfCovered ==
    (pc = "done" /\ fn = "determineAttendanceStatus")
        => /\ ret \in {"present", "proxy"}
           /\ ret = "present"
                <=> /\ args.coveragePercentage.k = "num"
                    /\ args.coveragePercentage.v >= 50 * Scale

\* A coverage of exactly 50 is present.
C6_Witness ==
    /\ pc = "done" /\ fn = "determineAttendanceStatus"
    /\ args.coveragePercentage = Num(50 * Scale)
    /\ ret = "present"

\* C7: for fixed radii the coverage is non-increasing in the centre distance:
\* moving the claimant's centre no nearer never raises the coverage.
C7_MonotoneInDistance ==
    (OverlapReturned /\ ValidOverlapArgs)
        => \A lat \in {l \in Latitudes : IsFinite(l)} :
              NumGe(getDistanceInMeters(args.center1Lat, args.center1Lon,
                                        lat, args.center2Lon),
                    CentreDistance)
                 => NumLe(calculateCircleOverlap(
                              args.center1Lat, args.center1Lon, args.radius1,
                              lat, args.center2Lon, args.radius2),
                          ret)

\* C8: a NaN or infinite coordinate or a negative radius is rejected with an
\* InvalidInputError: no coverage and no status is returned for it.
C8_InvalidInputRejected ==
    (OverlapReturned /\ ~ValidOverlapArgs) => thrown = "InvalidInputError"

DistanceWithin(limit) ==
    args.distance.k = "num" /\ args.distance.v <= limit

BothOnCampusWifi ==
    args.originWifi = "iBUS@MUJ" /\ args.markedWifi = "iBUS@MUJ"

ThresholdUsed == IF args.threshold.given THEN args.threshold.v ELSE 30

StatusReturned == pc = "done" /\ fn = "determineStatus"

C10_AbsentBeyondFifty ==
    (StatusReturned /\ args.distance.k = "num" /\ args.distance.v > 50)
        => ret = "absent"

\* C10 amended: determineStatus returns absent whenever distance > 50 and
\* distance > threshold, whatever the network hints.
C10_AbsentBeyondFiftyAndThreshold ==
    (/\ StatusReturned /\ args.distance.k = "num"
     /\ args.distance.v > 50 /\ args.distance.v > ThresholdUsed)
        => ret = "absent"

\* Beyond 50 m and beyond a threshold above 50, on the campus network: absent.
C10_Witness ==
    /\ StatusReturned
    /\ args.threshold.given /\ args.threshold.v > 50
    /\ args.distance.k = "num" /\ args.distance.v > args.threshold.v
    /\ BothOnCampusWifi
    /\ ret = "absent"

\* C11: determineStatus returns one of the three statuses, and "pending"
\* exactly when threshold < distance <= 50 and the same-network hint is not
\* true on both sides, for every input.
C11_PendingRule ==
    StatusReturned =>
        /\ ret \in {"present", "pending", "absent"}
        /\ ret = "pending" <=>
               /\ NumGt(args.distance, Num(ThresholdUsed))
               /\ DistanceWithin(50)
               /\ ~BothOnCampusWifi

\* The part of a string left when its leading and trailing spaces are cut:
\* the stretch from the first to the last character that is not a space.
Core(s) ==
    LET solid == {i \in 1..Len(s) : s[i] # " "}
    IN  IF solid = {} THEN <<>>
        ELSE SubSeq(s, CHOOSE i \in solid : \A j \in solid : i <= j,
                       CHOOSE i \in solid : \A j \in solid : j <= i)

\* The same letter, in whichever case.
SameLetter(c, d) == c = d \/ {c, d} = {"a", "A"}

\* s and t are equal once trimmed, up to the case of their letters: the
\* whole of one against the whole of the other.
SameRegistration(s, t) ==
    /\ Len(Core(s)) = Len(Core(t))
    /\ \A i \in 1..Len(Core(s)) : SameLetter(Core(s)[i], Core(t)[i])

\* The positions of the roster entries whose registration number is the
\* one looked up.
MatchingEntries ==
    {i \in 1..Len(args.facultyList) :
        SameRegistration(args.facultyList[i].registration_number,
                         args.studentRegistration)}

\* C12: isStudentInList is true if and only if some roster entry's
\* registration number equals the id once both are trimmed and lower-cased;
\* getStudentName returns the name of the first such entry, and null if and
\* only if isStudentInList is false.
C12_RosterLookup ==
    /\ (pc = "done" /\ fn = "isStudentInList")
           => (ret <=> MatchingEntries # {})
    /\ (pc = "done" /\ fn = "getStudentName")
           => /\ ret = Null
                   <=> ~isStudentInList(args.studentRegistration,
                                        args.facultyList)
              /\ \A i \in MatchingEntries :
                     (\A j \in MatchingEntries : i <= j)
                         => ret = args.facultyList[i].name

\* A padded, upper-case id was looked up in a roster whose two entries both
\* carry it, and the first entry's name came back.
C12_Witness ==
    /\ pc = "done" /\ fn = "getStudentName"
    /\ args.studentRegistration = <<" ", "A">>
    /\ Len(args.facultyList) = 2
    /\ args.facultyList[1].registration_number = <<"a">>
    /\ args.facultyList[2].registration_number = <<"A">>
    /\ ret = Name(1)

DistanceReturned == pc = "done" /\ fn = "getDistanceInMeters"

\* C13: for valid points getDistanceInMeters is a number (never NaN) that
\* is >= 0, the same in both directions, and 0 from a point to itself,
\* coincident and antipodal points included.
C13_DistanceIsMetric ==
    DistanceReturned =>
        /\ ret.k = "num"
        /\ ret.v >= 0
        /\ ret = haversine(args.lat2, args.lon2, args.lat1, args.lon1,
                           rounding)
        /\ (args.lat1 = args.lat2 /\ args.lon1 = args.lon2) => ret = Num(0)

\* The threshold the caller of determineAttendanceStatus asked for, in
\* percent: the minimumCoveragePercent supplied, 50 when none is.
MinimumCoverageAsked ==
    IF args.minimumCoveragePercent.given
    THEN args.minimumCoveragePercent.v
    ELSE 50

\* C18: a caller who supplies a minimumCoveragePercent gets "present" if
\* and only if the coverage is >= that value, and a caller who supplies
\* none gets the threshold 50.
C18_ThresholdConfigurable ==
    (pc = "done" /\ fn = "determineAttendanceStatus")
        => (ret = "present"
              <=> NumGe(args.coveragePercentage,
                        Num(MinimumCoverageAsked * Scale)))

\* C17: the reading returned is the most accurate of those collected: no
\* collected reading has a strictly smaller accuracy than the one returned.
C17_MostAccurateReturned ==
    gpsPc = "returned" =>
        \A k \in 1..Len(readings) :
            readings[k].accuracy.given
                => ~(readings[k].accuracy.v < locationData.v)

\* C14: every radius stored or handed to the overlap engine is the measured
\* accuracy plus its margin, and so strictly positive: session_radius =
\* session_accuracy + 10 in each session, student_radius = student_accuracy
\* + 1 in each attendance record, and these two are the radii of each call
\* of calculateCircleOverlap.
C14_RadiusIsAccuracyPlusMargin ==
    /\ \A s \in sessions :
          s.session_radius = s.session_accuracy + 10 /\ s.session_radius > 0
    /\ \A r \in attendance :
          r.student_radius = r.student_accuracy + 1 /\ r.student_radius > 0
    /\ \A d \in Devices :
          student[d].pc = "inserting" =>
              /\ student[d].overlap.radius1
                     = student[d].currentSession.session_accuracy + 10
              /\ student[d].overlap.radius2
                     = student[d].insert.student_accuracy + 1
              /\ student[d].overlap.radius1 > 0
              /\ student[d].overlap.radius2 > 0

\* A session and an attendance record made from locations of accuracy 0
\* are stored, with the radii 10 and 1.
C14_Witness ==
    /\ \E s \in sessions : s.session_accuracy = 0 /\ s.session_radius = 10
    /\ \E r \in attendance : r.student_accuracy = 0 /\ r.student_radius = 1

\* The stored attendance records of session s that match the entry of its
\* roster at position i.
RecordsOfEntry(s, i) ==
    {r \in attendance :
        /\ r.session_id = s.id
        /\ SameRegistration(r.student_registration,
                            s.student_list[i].registration_number)}

\* C15: for each session and each roster entry, at most one stored
\* attendance record matches that entry, after any sequence of submissions.
C15_OneRecordPerRosterEntry ==
    \A s \in sessions :
        \A i \in 1..Len(s.student_list) :
            Cardinality(RecordsOfEntry(s, i)) <= 1

\* The handler of device d has finished with its insert rejected as a
\* duplicate.
DuplicateRejected(d) ==
    student[d].pc = "idle" /\ student[d].error = "23505"

\* C16: a duplicate rejection (23505) shows the alert 'already marked
\* attendance' and not the generic failure, does not set attendanceMarked,
\* does not reset the form, and leaves isLoading false when the handler has
\* finished.
C16_DuplicateRejectionSurfaced ==
    \A d \in Devices :
        DuplicateRejected(d) =>
            /\ student[d].alert
                   = "You have already marked attendance for this session"
            /\ student[d].alert # "Failed to submit attendance"
            /\ ~student[d].attendanceMarked
            /\ student[d].regNo # <<>>
            /\ student[d].currentSession # NoSession
            /\ ~student[d].isLoading

\* One device's record is stored and the other device, on either screen,
\* has had the same registration number rejected as a duplicate.
C16_Witness ==
    \E d \in Devices :
        /\ DuplicateRejected(d)
        /\ \E r \in attendance :
              r.device # d /\ r.student_registration = student[d].regNo

\* reg is the registration number of some entry of list.
Listed(reg, list) ==
    \E i \in 1..Len(list) :
        SameRegistration(list[i].registration_number, reg)

\* C19: an attendance record is inserted only for a registration number
\* that is in the session's student_list; a handler that finds it is not
\* returns without having called for a location and without an insert.
C19_InsertOnlyIfListed ==
    /\ \A r \in attendance :
          \E s \in sessions :
              s.id = r.session_id /\ Listed(r.student_registration,
                                            s.student_list)
    /\ \A d \in Devices :
          /\ student[d].pc \in {"locating", "inserting"}
                => Listed(student[d].regNo,
                          student[d].currentSession.student_list)
          /\ (student[d].pc = "idle"
                 /\ student[d].alert = "Registration Not Found")
                => /\ ~student[d].locationAcquired
                   /\ \A r \in attendance : r.device # d

\* A device whose registration number is not listed has been turned away,
\* while the other device's record is stored.
C19_Witness ==
    \E d \in Devices :
        /\ student[d].pc = "idle"
        /\ student[d].alert = "Registration Not Found"
        /\ student[d].regNo = <<"a", "a">>
        /\ \E r \in attendance : r.device # d

\* C20: every attendance record comes from a device connected to the WiFi
\* network iBUS@MUJ.
C20_RecordOnlyOnCampusWifi ==
    \A r \in attendance : ssid[r.device] = "iBUS@MUJ"

\* C26: the GPS reading loop takes at most maxReadings (3) readings; a
\* reading with accuracy < 5 m is the last one taken (no reading follows it
\* and the loop is over); the acquisition has failed only with no reading
\* collected (the first reading failed), a failure of a later reading
\* leaving the readings already obtained to build the result from; and a
\* result is returned only if at least one reading was obtained.
C26_ReadingLoop ==
    /\ Len(readings) <= maxReadings
    /\ \A k \in 1..Len(readings) :
           (readings[k].accuracy.given /\ readings[k].accuracy.v < 5)
               => (k = Len(readings) /\ gpsPc # "loop")
    /\ gpsPc = "thrown" => Len(readings) = 0
    /\ gpsPc = "returned" => Len(readings) >= 1
    /\ (gpsPc = "loop" /\ loopI >= 1) => Len(readings) >= 1

\* The partial overlap calculation of the call was reached.
AcosBranchReached ==
    /\ OverlapReturned
    /\ PartialBranch(CentreDistance, args.radius1, args.radius2, rounding)

\* C27: the partial-overlap (acos) branch of calculateCircleOverlap is
\* reached only with distance > 0, radius1 > 0 and radius2 > 0, and whenever
\* it is reached both acos arguments lie in [-1, 1] and the expression under
\* the square root of area3 is >= 0.
C27_AcosBranchDefined ==
    AcosBranchReached =>
        /\ NumGt(CentreDistance, Num(0))
        /\ args.radius1 > 0 /\ args.radius2 > 0
        /\ LET d == CentreDistance.v
               r1Sq == args.radius1 * args.radius1
               r2Sq == args.radius2 * args.radius2
               dSq == d * d
           IN  /\ InAcosDomain(dSq + r1Sq - r2Sq, 2 * d * args.radius1,
                               rounding)
               /\ InAcosDomain(dSq + r2Sq - r1Sq, 2 * d * args.radius2,
                               rounding)
               /\ UnderRoot(d, args.radius1, args.radius2) >= 0

\* The number of calls of getHighAccuracyLocation made so far.
AttCalls == Len(acquired) + IF attPc = "calling" THEN 1 ELSE 0

\* The k-th call of getHighAccuracyLocation gave a location that is accurate
\* enough.
Sufficient(k) ==
    /\ acquired[k].fulfilled
    /\ acquired[k].location.accuracy.given
    /\ acquired[k].location.accuracy.v
           <= OrDefault(requiredAccuracy, defaultRequiredAccuracy)

AttSettled == attPc \in {"returned", "thrown"}

\* Every call of getHighAccuracyLocation settles.
AttemptsSettle == [](attPc = "calling" => <>(attPc # "calling"))

\* What holds at every moment of a call with maxAttempts >= 1.
AttSafety ==
    (attPc # "idle" /\ OrDefault(maxAttempts, defaultMaxAttempts) >= 1) =>
        LET last == Len(acquired)
            most == OrDefault(maxAttempts, defaultMaxAttempts)
        IN  /\ AttCalls <= most
            /\ attPc = "returned"
                  => /\ last >= 1 /\ Sufficient(last)
                     /\ attResult = Returns(acquired[last].location)
                     /\ \A k \in 1..(last - 1) : ~Sufficient(k)
            /\ attPc = "thrown"
                  => /\ last = most /\ ~Sufficient(last)
                     /\ attResult.error # "none"
            /\ (last >= 1 /\ Sufficient(last)) => attPc = "returned"
            /\ (last = most /\ ~Sufficient(last)) => attPc = "thrown"
            /\ (1 <= last /\ last < most /\ ~Sufficient(last))
                  => attPc \in {"waiting", "calling"}

\* C21: getLocationForAttendance with maxAttempts >= 1 calls
\* getHighAccuracyLocation at most maxAttempts times; it returns the first
\* location acquired whose accuracy is <= requiredAccuracy, and never one
\* with a larger accuracy; it rejects once the maxAttempts-th attempt has
\* failed or was not accurate enough; an earlier attempt that failed or was
\* not accurate enough is followed by another attempt; and, if every call
\* of getHighAccuracyLocation settles, the function settles.
C21_BoundedRetry ==
    /\ []AttSafety
    /\ (OrDefault(maxAttempts, defaultMaxAttempts) >= 1 /\ AttemptsSettle)
          => <>AttSettled

\* Two attempts failed or were not accurate enough, the third gave a
\* location that is, and it was returned.
C21_Witness ==
    /\ attPc = "returned"
    /\ Len(acquired) = 3
    /\ ~acquired[1].fulfilled
    /\ acquired[2].fulfilled /\ ~Sufficient(2)
    /\ Sufficient(3)

LocSettled == locPc \in {"returned", "thrown"}

\* The methods that have fulfilled.
FulfilledMethods ==
    {i \in 1..Len(locationMethods) :
        locationMethods[i].status = "fulfilled"}

\* C22: in the multi-method getHighAccuracyLocation, once the 20-second
\* timeout has fired the call has settled: it does not go on waiting for the
\* location methods that are still pending.
C22_TimeoutEndsTheWait ==
    (locPc # "idle" /\ timeoutPromise = "rejected") => LocSettled

\* C23: in the multi-method getHighAccuracyLocation, once its promises have
\* settled the call has settled; if at least one method fulfilled it has
\* returned a fulfilled result whose accuracy is the smallest among all
\* fulfilled results, the rejected timeout notwithstanding; and it has
\* rejected, with 'All location methods failed', if and only if no method
\* fulfilled.
C23_BestFulfilledReturned ==
    /\ (locPc # "idle" /\ allSettled(locationMethods, timeoutPromise))
          => LocSettled
    /\ LocSettled =>
          /\ FulfilledMethods # {}
                => /\ locPc = "returned"
                   /\ \E i \in FulfilledMethods :
                         /\ locResult.source = Sources[i]
                         /\ locResult.accuracy = locationMethods[i].accuracy
                   /\ \A j \in FulfilledMethods :
                         locResult.accuracy <= locationMethods[j].accuracy
          /\ locPc = "thrown" <=> FulfilledMethods = {}
          /\ locPc = "thrown"
                => locResult.error = "All location methods failed"

\* The call returned the result of a later method, more accurate than that
\* of an earlier one, with a method and the timeout rejected.
C23_Witness ==
    /\ locPc = "returned"
    /\ timeoutPromise = "rejected"
    /\ \E i, j, k \in 1..Len(locationMethods) :
          /\ i < j
          /\ locationMethods[i].status = "fulfilled"
          /\ locationMethods[j].status = "fulfilled"
          /\ locationMethods[j].accuracy < locationMethods[i].accuracy
          /\ locationMethods[k].status = "rejected"
          /\ locResult.source = Sources[j]

\* A session has been started and ended on the screen: endSession has
\* completed.
SessionOver ==
    /\ ~facultyTab.sessionActive
    /\ \E id \in DOMAIN sessionRows : sessionRows[id] # "none"

\* A step in which endSession completes.
SessionEnds == facultyTab.sessionActive /\ ~facultyTab'.sessionActive

\* C24: the step that ends a session turns every 'pending' student of the
\* list to 'absent' and leaves every other status as it is; and once
\* endSession has completed no student of the list is 'pending', whatever
\* completes afterwards (a poll that started before the session ended).
C24_PendingBecomesAbsent ==
    /\ [][SessionEnds
             => facultyTab'.students = pendingToAbsent(facultyTab.students)]_vars
    /\ [](SessionOver
             => \A i \in DOMAIN facultyTab.students :
                    facultyTab.students[i] # "pending")

\* The session id is over on the screen and in the database.
SessionEnded(id) ==
    /\ ~facultyTab.sessionActive
    /\ facultyTab.currentSession = 0
    /\ facultyTab.timeRemaining = 0
    /\ sessionRows[id] = "inactive"

\* How timeRemaining changes: a session starts at sessionSeconds; while it
\* is active a tick takes one off; the end of the session sets 0.  When a
\* tick reaches 0 a call of endSession is under way.
CountdownStep ==
    /\ (~facultyTab.sessionActive /\ facultyTab'.sessionActive)
          => facultyTab'.timeRemaining = sessionSeconds
    /\ (facultyTab.sessionActive /\ facultyTab'.sessionActive)
          => \/ facultyTab'.timeRemaining = facultyTab.timeRemaining
             \/ /\ facultyTab'.timeRemaining = facultyTab.timeRemaining - 1
                /\ facultyTab'.timeRemaining = 0
                      => \E call \in running' : call.fn = "endSession"
    /\ ~facultyTab'.sessionActive => facultyTab'.timeRemaining = 0

\* Something is left to end the session id: it is the current session of
\* the screen, whose countdown runs or has called endSession, or a call of
\* endSession for it is under way.
StillToEnd(id) ==
    \/ facultyTab.currentSession = id
    \/ \E call \in running :
          call.fn = "endSession" /\ call.closure.currentSession = id

\* C25: a started session always ends.  The countdown starts at 600, goes
\* down by exactly one per tick and stays in 0..600; when it reaches 0
\* endSession runs; sessionActive holds if and only if currentSession is
\* not null; and every session started is eventually over: sessionActive
\* false, currentSession null, timeRemaining 0 and the session row with
\* is_active = false, so that a row with is_active = true is never left
\* with nothing to end it.
C25_SessionAlwaysEnds ==
    /\ [](/\ facultyTab.timeRemaining \in 0..sessionSeconds
          /\ facultyTab.sessionActive <=> facultyTab.currentSession # 0)
    /\ [][CountdownStep]_vars
    /\ [](\A id \in DOMAIN sessionRows :
              sessionRows[id] = "active" => StillToEnd(id))
    /\ \A id \in 1..MaxSessions :
          (sessionRows[id] = "active") ~> SessionEnded(id)

====
